---- MODULE Spec2Model ----
(***************************************************************************)
(* Model of convert_math.py: a one-shot batch tool that walks the block    *)
(* tree of a Notion page, finds LaTeX written as plain text ($...$ and     *)
(* $$...$$) and rewrites it as native equation objects through the Notion  *)
(* REST API.                                                               *)
(*                                                                         *)
(* Texts are sequences of one-character strings.  Block IDs are naturals;  *)
(* 0 is the page (PAGE_ID).                                                *)
(***************************************************************************)
EXTENDS Integers, Sequences, FiniteSets, TLC

(***************************************************************************)
(* Program constants                                                       *)
(***************************************************************************)
NOTION_EXPRESSION_LIMIT == 1000

RICH_TEXT_HOLDER_TYPES ==
    {"paragraph", "bulleted_list_item", "numbered_list_item", "to_do",
     "toggle", "quote", "callout", "heading_1", "heading_2", "heading_3"}

\* A retry ceiling that is off by one.
max_retries_short == 5 - 1

max_retries == 5

PAGE_SIZE == 100

PAGE_ID == 0

(***************************************************************************)
(* Strings                                                                 *)
(***************************************************************************)
DOLLAR == "$"

BACKSLASH == "\\"

NEWLINE == "\n"

\* Python's \s and str.strip(): the whitespace characters of the alphabet.
IsSpace(c) == c \in {" ", NEWLINE}

\* The least q in p..Len(t) with t[q] in S, or Len(t)+1 when there is none:
\* where a left-to-right scan that started at p stops.
ScanTo(t, p, S) ==
    IF \E q \in p..Len(t) : t[q] \in S
    THEN CHOOSE q \in p..Len(t) : t[q] \in S /\ \A r \in p..(q - 1) : t[r] \notin S
    ELSE Len(t) + 1

\* s[a:b] on 1-based inclusive bounds, empty when a > b.
Slice(t, a, b) == IF a > b THEN <<>> ELSE SubSeq(t, a, b)

\* str.replace(old, new) for a two-character old and a one-character new:
\* left to right, non-overlapping.
RECURSIVE Replace2(_, _, _, _)
Replace2(t, old, new, p) ==
    LET q == ScanTo(t, p, {old[1]})
    IN  IF q > Len(t) THEN Slice(t, p, Len(t))
        ELSE IF q + 1 <= Len(t) /\ t[q + 1] = old[2]
             THEN Slice(t, p, q - 1) \o <<new>> \o Replace2(t, old, new, q + 2)
             ELSE Slice(t, p, q) \o Replace2(t, old, new, q + 1)

\* raw_expression.replace('\\\\', '\\').replace('\\$', '$')
Unescape(raw) ==
    LET once == Replace2(raw, <<BACKSLASH, BACKSLASH>>, BACKSLASH, 1)
    IN  Replace2(once, <<BACKSLASH, DOLLAR>>, DOLLAR, 1)

\* str.strip()
Strip(t) ==
    LET NonSpace == {k \in 1..Len(t) : ~IsSpace(t[k])}
    IN  IF NonSpace = {} THEN <<>>
        ELSE LET a == CHOOSE k \in NonSpace : \A j \in 1..(k - 1) : IsSpace(t[j])
                 b == CHOOSE k \in NonSpace : \A j \in (k + 1)..Len(t) : IsSpace(t[j])
             IN  SubSeq(t, a, b)

\* "".join(parts)
RECURSIVE Join(_)
Join(parts) == IF parts = <<>> THEN <<>> ELSE Head(parts) \o Join(Tail(parts))

(***************************************************************************)
(* The inline pattern  \$((?:\\.|[^$])+?)\$  as the backtracking matcher   *)
(* runs it.  InlineEnd(t, p, canClose) is the position just past the       *)
(* closing $ of the first successful path when the interior continues at   *)
(* p, or 0 when every path fails.  canClose: at least one interior item    *)
(* was consumed (the + of the group).  Lazy: the closing $ is tried before *)
(* another item; alternatives in order: the escape pair \\. (. matches no  *)
(* newline), then [^$].  An ordinary character admits only [^$] and no     *)
(* close, so a run of them is crossed in one step.                         *)
(***************************************************************************)
RECURSIVE InlineEnd(_, _, _)
InlineEnd(t, p, canClose) ==
    IF p > Len(t) THEN 0
    ELSE IF t[p] = DOLLAR THEN (IF canClose THEN p + 1 ELSE 0)
    ELSE IF t[p] = BACKSLASH
         THEN LET viaPair == IF p + 1 <= Len(t) /\ t[p + 1] # NEWLINE
                             THEN InlineEnd(t, p + 2, TRUE) ELSE 0
              IN  IF viaPair # 0 THEN viaPair ELSE InlineEnd(t, p + 1, TRUE)
         ELSE InlineEnd(t, ScanTo(t, p, {DOLLAR, BACKSLASH}), TRUE)

\* re.finditer's next match at or after pos: <<start, end>> with end one
\* past the match, or <<0, 0>>.
RECURSIVE NextMatch(_, _)
NextMatch(t, pos) ==
    LET s == ScanTo(t, pos, {DOLLAR})
    IN  IF s > Len(t) THEN <<0, 0>>
        ELSE LET e == InlineEnd(t, s + 1, FALSE)
             IN  IF e # 0 THEN <<s, e>> ELSE NextMatch(t, s + 1)

\* Rich-text objects as the program builds them for a request body.
TextItem(content) == [type |-> "text", content |-> content]

EquationItem(expression) == [type |-> "equation", expression |-> expression]

\* A loop body that emits nothing for a match that is too long.
MatchItems_dropped(t, last_end, m) ==
    LET before == IF m[1] > last_end
                  THEN <<TextItem(Slice(t, last_end, m[1] - 1))>> ELSE <<>>
        expression == Unescape(Slice(t, m[1] + 1, m[2] - 2))
    IN  IF Len(expression) > NOTION_EXPRESSION_LIMIT THEN before
        ELSE IF expression # <<>> THEN before \o <<EquationItem(expression)>>
        ELSE before

\* The loop body of parse_inline_equations for one match m.
MatchItems(t, last_end, m) ==
    LET before == IF m[1] > last_end
                  THEN <<TextItem(Slice(t, last_end, m[1] - 1))>> ELSE <<>>
        expression == Unescape(Slice(t, m[1] + 1, m[2] - 2))
    IN  IF Len(expression) > NOTION_EXPRESSION_LIMIT
        THEN before \o <<TextItem(Slice(t, m[1], m[2] - 1))>>
        ELSE IF expression # <<>> THEN before \o <<EquationItem(expression)>>
        ELSE before

MatchChanges(t, m) ==
    LET expression == Unescape(Slice(t, m[1] + 1, m[2] - 2))
    IN  Len(expression) <= NOTION_EXPRESSION_LIMIT /\ expression # <<>>

\* The for loop of parse_inline_equations, from last_end (1-based position
\* of the first character not yet emitted).
RECURSIVE ParseLoop(_, _, _, _)
ParseLoop(t, last_end, items, changed) ==
    LET m == NextMatch(t, last_end)
    IN  IF m = <<0, 0>>
        THEN [is_changed |-> changed,
              new_rich_text |-> IF last_end <= Len(t)
                                THEN items \o <<TextItem(Slice(t, last_end, Len(t)))>>
                                ELSE items]
        ELSE ParseLoop(t, m[2], items \o MatchItems(t, last_end, m),
                       changed \/ MatchChanges(t, m))

parse_inline_equations(full_text) ==
    LET r == ParseLoop(full_text, 1, <<>>, FALSE)
    IN  IF r.new_rich_text = <<>> /\ full_text # <<>>
        THEN [is_changed |-> FALSE, new_rich_text |-> <<TextItem(full_text)>>]
        ELSE r

(***************************************************************************)
(* re.fullmatch(r"\s*\$\$(.*?)\$\$\s*", full_text, re.DOTALL): the         *)
(* position pair <<a, j>> of the opening and the closing $$, or <<0, 0>>.  *)
(* The leading \s* is greedy and cannot give back (a $ is no space); the   *)
(* lazy group takes the first closing $$ after which only spaces remain.   *)
(***************************************************************************)
block_match(t) ==
    LET a == IF \E k \in 1..Len(t) : ~IsSpace(t[k])
             THEN CHOOSE k \in 1..Len(t) : ~IsSpace(t[k]) /\ \A r \in 1..(k - 1) : IsSpace(t[r])
             ELSE Len(t) + 1
        Closes == {j \in (a + 2)..(Len(t) - 1) :
                      /\ t[j] = DOLLAR /\ t[j + 1] = DOLLAR
                      /\ \A k \in (j + 2)..Len(t) : IsSpace(t[k])}
    IN  IF a + 1 <= Len(t) /\ t[a] = DOLLAR /\ t[a + 1] = DOLLAR /\ Closes # {}
        THEN <<a, CHOOSE j \in Closes : \A k \in Closes : j <= k>>
        ELSE <<0, 0>>

\* block_match.group(1).strip()
block_expression(t) ==
    LET m == block_match(t) IN Strip(Slice(t, m[1] + 2, m[2] - 1))

(***************************************************************************)
(* Bounds of the model                                                     *)
(***************************************************************************)
\* Largest number of children the remote returns in one page.
MaxPage == 2

\* Number of times the tool is run on the same page.
MaxRuns == 2

(***************************************************************************)
(* The remote document (the Notion workspace behind the API)               *)
(***************************************************************************)
\* A rich-text object as the API returns it.
StoredText(s) == [type |-> "text", plain_text |-> s]

StoredEquation(s) == [type |-> "equation", plain_text |-> s]

\* What the API stores for a rich-text object of a request body: a built
\* object gets its plain_text, a fetched object sent back stays as it is.
ToStored(item) ==
    IF "plain_text" \in DOMAIN item THEN item
    ELSE IF item.type = "text" THEN StoredText(item.content)
    ELSE StoredEquation(item.expression)

ToStoredRun(items) == [i \in DOMAIN items |-> ToStored(items[i])]

Node(type, parent, children, content) ==
    [type |-> type, parent |-> parent, children |-> children,
     archived |-> FALSE, content |-> content]

RichText(texts) == [i \in DOMAIN texts |-> StoredText(texts[i])]

\* A serialised object that lacks the "type" key.
NoType == "<no type>"

Letters(n) == [i \in 1..n |-> "a"]

\* Block math, a to-do with inline math split over two rich-text objects,
\* a plain heading: three children, hence two pages.
DocPromote ==
    (0 :> Node("page", 0, <<1, 2, 3>>, [title |-> "page"]))
 @@ (1 :> Node("paragraph", 0, <<>>,
               [rich_text |-> RichText(<<<<" ", "$", "$", "a", "$", "$", NEWLINE>>>>),
                color |-> "default"]))
 @@ (2 :> Node("to_do", 0, <<>>,
               [rich_text |-> RichText(<<<<"a", "$">>, <<"a", "$", "a">>>>),
                checked |-> TRUE, color |-> "blue"]))
 @@ (3 :> Node("heading_1", 0, <<>>,
               [rich_text |-> RichText(<<<<"a", "a">>>>), is_toggleable |-> FALSE]))

\* A toggle with a block-math child, and a table with two rows.
DocNested ==
    (0 :> Node("page", 0, <<1, 3>>, [title |-> "page"]))
 @@ (1 :> Node("toggle", 0, <<2>>,
               [rich_text |-> RichText(<<<<"$", "a", "$">>>>), color |-> "default"]))
 @@ (2 :> Node("quote", 1, <<>>,
               [rich_text |-> RichText(<<<<"$", "$", "a", "$", "$">>>>), color |-> "default"]))
 @@ (3 :> Node("table", 0, <<4, 5>>, [table_width |-> 2]))
 @@ (4 :> Node("table_row", 3, <<>>,
               [cells |-> <<RichText(<<<<"$", "a", "$">>>>), RichText(<<<<"a">>>>),
                            RichText(<<<<"$", "$", "a", "$", "$">>>>)>>]))
 @@ (5 :> Node("table_row", 3, <<>>,
               [cells |-> <<RichText(<<<<"a">>>>), RichText(<<<<"a", "$">>>>)>>]))

\* Expressions around the length limit.
DocLong ==
    (0 :> Node("page", 0, <<1, 2, 3>>, [title |-> "page"]))
 @@ (1 :> Node("paragraph", 0, <<>>,
               [rich_text |-> RichText(<<<<"$", "$">> \o Letters(NOTION_EXPRESSION_LIMIT + 1)
                                            \o <<"$", "$">>>>),
                color |-> "default"]))
 @@ (2 :> Node("paragraph", 0, <<>>,
               [rich_text |-> RichText(<<<<"$", "$">> \o Letters(NOTION_EXPRESSION_LIMIT)
                                            \o <<"$", "$">>>>),
                color |-> "default"]))
 @@ (3 :> Node("callout", 0, <<>>,
               [rich_text |-> RichText(<<<<"$", "a", "$", "$">>
                                            \o Letters(NOTION_EXPRESSION_LIMIT + 1) \o <<"$">>>>),
                icon |-> "bulb"]))

\* Escapes inside inline math, an empty paragraph, a block of another type.
DocEscape ==
    (0 :> Node("page", 0, <<1, 2, 3, 4>>, [title |-> "page"]))
 @@ (1 :> Node("paragraph", 0, <<>>,
               [rich_text |-> RichText(<<<<"$", BACKSLASH, "$", "a", BACKSLASH, "$", "$">>>>),
                color |-> "default"]))
 @@ (2 :> Node("bulleted_list_item", 0, <<>>,
               [rich_text |-> RichText(<<<<"$", "a", BACKSLASH, BACKSLASH, "a", "$">>>>),
                color |-> "default"]))
 @@ (3 :> Node("paragraph", 0, <<>>, [rich_text |-> <<>>, color |-> "default"]))
 @@ (4 :> Node("divider", 0, <<>>, [kind |-> "divider"]))

\* A child object without a "type" key between a toggle and a paragraph.
DocNoType ==
    (0 :> Node("page", 0, <<1, 2, 3>>, [title |-> "page"]))
 @@ (1 :> Node("toggle", 0, <<4>>,
               [rich_text |-> RichText(<<<<"$", "a", "$">>>>), color |-> "default"]))
 @@ (4 :> Node("paragraph", 1, <<>>,
               [rich_text |-> RichText(<<<<"a">>>>), color |-> "default"]))
 @@ (2 :> Node(NoType, 0, <<>>, [kind |-> "unknown"]))
 @@ (3 :> Node("paragraph", 0, <<>>,
               [rich_text |-> RichText(<<<<"$", "a", "$">>>>), color |-> "default"]))

\* Block math that has a child, and block math that is too long and holds
\* inline math.
DocDeep ==
    (0 :> Node("page", 0, <<1, 2>>, [title |-> "page"]))
 @@ (1 :> Node("quote", 0, <<3>>,
               [rich_text |-> RichText(<<<<"$", "$", "a", "$", "$">>>>), color |-> "default"]))
 @@ (3 :> Node("paragraph", 1, <<>>,
               [rich_text |-> RichText(<<<<"$", "a", "$">>>>), color |-> "default"]))
 @@ (2 :> Node("paragraph", 0, <<>>,
               [rich_text |-> RichText(<<<<"$", "$", "a", "$", "a", "$">>
                                            \o Letters(NOTION_EXPRESSION_LIMIT + 1)
                                            \o <<"$", "$">>>>),
                color |-> "default"]))

Docs == {DocPromote, DocNested, DocLong, DocEscape, DocNoType, DocDeep}

\* The children of block b that the API lists.
RECURSIVE Live(_, _)
Live(st, ids) ==
    IF ids = <<>> THEN <<>>
    ELSE (IF st[Head(ids)].archived THEN <<>> ELSE <<Head(ids)>>) \o Live(st, Tail(ids))

LiveChildren(st, b) == Live(st, st[b].children)

\* The "parent" object of a block.
ParentInfo(st, id) ==
    IF st[id].parent = PAGE_ID
    THEN [type |-> "page_id", page_id |-> st[id].parent]
    ELSE [type |-> "block_id", block_id |-> st[id].parent]

\* The block object the API returns for id; block[block_type] is .content.
APIBlock(st, id) ==
    LET common == [id |-> id,
                   has_children |-> LiveChildren(st, id) # <<>>,
                   parent |-> ParentInfo(st, id),
                   content |-> st[id].content]
    IN  IF st[id].type = NoType THEN common
        ELSE common @@ [type |-> st[id].type]

Min(a, b) == IF a < b THEN a ELSE b

\* GET /blocks/{b}/children: one page after the cursor (0: from the start).
ChildrenPage(st, b, params) ==
    LET live == LiveChildren(st, b)
        from == params.start_cursor + 1
        to == Min(params.start_cursor + Min(params.page_size, MaxPage), Len(live))
    IN  [results |-> [i \in 1..(to - from + 1) |-> APIBlock(st, live[from + i - 1])],
         has_more |-> to < Len(live),
         next_cursor |-> to]

NewId(st) == CHOOSE n \in 1..(Cardinality(DOMAIN st) + 1) : n \notin DOMAIN st /\ \A m \in DOMAIN st : m < n

RECURSIVE InsertAfter(_, _, _)
InsertAfter(ids, after, new) ==
    IF ids = <<>> THEN <<>>
    ELSE IF Head(ids) = after THEN <<after, new>> \o Tail(ids)
    ELSE <<Head(ids)>> \o InsertAfter(Tail(ids), after, new)

InSeq(x, s) == \E i \in DOMAIN s : s[i] = x

\* The document after the remote has carried out a request.
ServerApply(st, r) ==
    IF r.method = "GET" THEN st
    ELSE IF r.url.children
    THEN LET new == NewId(st)
             parent == r.url.block
         IN  (new :> Node("equation", parent, <<>>,
                          [expression |-> r.json.children[1].equation.expression]))
             @@ [st EXCEPT ![parent].children = InsertAfter(@, r.json.after, new)]
    ELSE IF "archived" \in DOMAIN r.json
    THEN [st EXCEPT ![r.url.block].archived = r.json.archived]
    ELSE IF "table_row" \in DOMAIN r.json
    THEN [st EXCEPT ![r.url.block].content =
             [cells |-> [i \in DOMAIN r.json.table_row.cells |->
                            ToStoredRun(r.json.table_row.cells[i])]]]
    ELSE LET key == CHOOSE k \in DOMAIN r.json : TRUE
         IN  [st EXCEPT ![r.url.block].content =
                 [r.json[key] EXCEPT !.rich_text = ToStoredRun(@)]]

\* A request the remote can carry out.
ServerAccepts(st, r) ==
    /\ r.url.block \in DOMAIN st
    /\ r.method = "PATCH" /\ r.url.children => InSeq(r.json.after, st[r.url.block].children)

ServerResponse(st, r) ==
    IF r.method = "GET" THEN ChildrenPage(st, r.url.block, r.params)
    ELSE [object |-> "block"]

(***************************************************************************)
(* State                                                                   *)
(***************************************************************************)
VARIABLES
    store,          \* the remote document: block id -> node
    phase,          \* where main() is
    stack,          \* the activations of process_blocks_recursively, innermost last
    req,            \* the make_request call in progress
    failed_blocks,  \* the module-level list failed_blocks
    reported,       \* what the final report has printed
    log,            \* the requests issued in this run, in order
    run,            \* ordinal of this run of the tool
    prev_clean,     \* every request of the previous run succeeded
    origin,         \* the remote document when this run started
    input,          \* the text handed to a call of parse_inline_equations on its own
    output          \* what that call returned

vars == <<store, phase, stack, req, failed_blocks, reported, log, run, prev_clean, origin,
          input, output>>

Idle == [status |-> "idle"]

\* No call of the parser on its own has returned.
NotCalled == [called |-> FALSE]

NoReport == [count |-> 0, ids |-> {}]

\* An activation of process_blocks_recursively(block_id) about to fetch.
Frame(block_id) ==
    [block_id |-> block_id, at |-> "fetch", blocks |-> <<>>, start_cursor |-> 0, idx |-> 1]

Top == stack[Len(stack)]

SetTop(f) == [stack EXCEPT ![Len(stack)] = f]

\* Retry-After headers of a throttling response: absent, or decimal digits.
NoHeader == <<>>

RetryAfterHeaders == {NoHeader, <<"2">>, <<"1", "0">>}

DigitValue(d) == CHOOSE n \in 0..9 : <<"0", "1", "2", "3", "4", "5", "6", "7", "8", "9">>[n + 1] = d

\* int(s) for a string of decimal digits.
RECURSIVE ParseInt(_)
ParseInt(s) ==
    IF s = <<>> THEN 0
    ELSE 10 * ParseInt(SubSeq(s, 1, Len(s) - 1)) + DigitValue(s[Len(s)])

\* int(e.response.headers.get("Retry-After", 1))
retry_after(header) == IF header = NoHeader THEN 1 ELSE ParseInt(header)

Init ==
    /\ store \in Docs
    /\ phase = "start"
    /\ stack = <<>>
    /\ req = Idle
    /\ failed_blocks = <<>>
    /\ reported = NoReport
    /\ log = <<>>
    /\ run = 1
    /\ prev_clean = FALSE
    /\ origin = store
    /\ input = <<>>
    /\ output = NotCalled

(***************************************************************************)
(* make_request under handle_rate_limit                                    *)
(***************************************************************************)
\* The call make_request(method, url, **kwargs); url is f"{NOTION_API_URL}/
\* blocks/{url.block}" followed by "/children" when url.children.  args is
\* the set of names passed by keyword.
Call(method, url, args) ==
    [status |-> "calling", method |-> method, url |-> url,
     kwargs |-> DOMAIN args, attempt |-> 0, answer |-> "none",
     header |-> NoHeader, sleeps |-> 0, slept |-> 0] @@ args

Issue(r) ==
    /\ req' = r
    /\ log' = Append(log, [method |-> r.method, url |-> r.url,
                           json |-> IF "json" \in DOMAIN r THEN r.json ELSE [none |-> TRUE],
                           outcome |-> "pending"])

SetOutcome(o) == log' = [log EXCEPT ![Len(log)].outcome = o]

\* The request succeeds: raise_for_status passes and the response returns.
AttemptOk ==
    /\ req.status = "calling"
    /\ req.attempt < max_retries
    /\ ServerAccepts(store, req)
    /\ req' = [req EXCEPT !.attempt = @ + 1, !.answer = "ok", !.status = "returned"]
              @@ [response |-> ServerResponse(store, req)]
    /\ store' = ServerApply(store, req)
    /\ SetOutcome("ok")
    /\ UNCHANGED <<input, output, phase, stack, failed_blocks, reported, run, prev_clean, origin>>

\* A wrapper that starts over when its retries are used up.
AttemptThrottled_restart ==
    /\ req.status = "calling"
    /\ req.attempt < max_retries
    /\ \E h \in RetryAfterHeaders :
         req' = [req EXCEPT !.attempt = IF req.attempt + 1 < max_retries THEN @ + 1 ELSE 0,
                            !.answer = "throttled",
                            !.header = h,
                            !.sleeps = IF req.attempt + 1 < max_retries THEN @ + 1 ELSE 0,
                            !.slept = retry_after(h)]
    /\ UNCHANGED <<input, output, store, phase, stack, failed_blocks, reported, log, run,
                   prev_clean, origin>>

\* Status 429: sleep for Retry-After and go round the loop; after the last
\* round raise Exception("API request failed after multiple retries").
AttemptThrottled ==
    /\ req.status = "calling"
    /\ req.attempt < max_retries
    /\ \E h \in RetryAfterHeaders :
         req' = [req EXCEPT !.attempt = @ + 1,
                            !.answer = "throttled",
                            !.header = h,
                            !.sleeps = @ + 1,
                            !.slept = retry_after(h),
                            !.status = IF req.attempt + 1 < max_retries
                                       THEN "calling" ELSE "exhausted"]
    /\ IF req.attempt + 1 < max_retries THEN UNCHANGED log ELSE SetOutcome("failed")
    /\ UNCHANGED <<input, output, store, phase, stack, failed_blocks, reported, run, prev_clean, origin>>

\* A wrapper that treats every request error as retryable.
AttemptError_retry ==
    /\ req.status = "calling"
    /\ req.attempt < max_retries
    /\ \E answer \in {"http_error", "no_response"} :
         req' = [req EXCEPT !.attempt = @ + 1,
                            !.answer = answer,
                            !.sleeps = @ + 1,
                            !.slept = 1,
                            !.status = IF req.attempt + 1 < max_retries
                                       THEN "calling" ELSE "exhausted"]
    /\ IF req.attempt + 1 < max_retries THEN UNCHANGED log ELSE SetOutcome("failed")
    /\ UNCHANGED <<input, output, store, phase, stack, failed_blocks, reported, run, prev_clean, origin>>

\* Any other RequestException: a response with another error status, or no
\* response at all.  The block ID is recorded when url was passed by keyword
\* (every URL of the program contains "blocks/").
AttemptError ==
    /\ req.status = "calling"
    /\ req.attempt < max_retries
    /\ \E answer \in {"http_error", "no_response"} :
         req' = [req EXCEPT !.attempt = @ + 1, !.answer = answer, !.status = "raised"]
    /\ failed_blocks' = IF "url" \in req.kwargs
                        THEN Append(failed_blocks, req.url.block)
                        ELSE failed_blocks
    /\ SetOutcome("failed")
    /\ UNCHANGED <<input, output, store, phase, stack, reported, run, prev_clean, origin>>

Failed(r) == r.status \in {"raised", "exhausted"}

(***************************************************************************)
(* main                                                                    *)
(***************************************************************************)
\* NOTION_TOKEN or PAGE_ID is not set.
MainNotConfigured ==
    /\ phase = "start"
    /\ phase' = "exit"
    /\ UNCHANGED <<input, output, store, stack, req, failed_blocks, reported, log, run, prev_clean, origin>>

Lower(c) == IF c = "Y" THEN "y" ELSE IF c = "N" THEN "n" ELSE c

\* The answer typed at the prompt.
MainPrompt ==
    /\ phase = "start"
    /\ \E answer \in {"y", "Y", "n", ""} :
         IF Lower(answer) # "y"
         THEN phase' = "exit" /\ stack' = stack
         ELSE phase' = "traversing" /\ stack' = <<Frame(PAGE_ID)>>
    /\ UNCHANGED <<input, output, store, req, failed_blocks, reported, log, run, prev_clean, origin>>

\* An exception handler that ends the run without the report.
MainExcept_silent ==
    /\ phase = "except"
    /\ phase' = "done"
    /\ UNCHANGED <<input, output, store, stack, req, failed_blocks, reported, log, run, prev_clean, origin>>

\* except Exception: only logs.
MainExcept ==
    /\ phase = "except"
    /\ phase' = "finally"
    /\ UNCHANGED <<input, output, store, stack, req, failed_blocks, reported, log, run, prev_clean, origin>>

RECURSIVE ToSet(_)
ToSet(s) == IF s = <<>> THEN {} ELSE {Head(s)} \cup ToSet(Tail(s))

\* finally: the list of failed block IDs, without duplicates.
MainFinally ==
    /\ phase = "finally"
    /\ reported' = [count |-> reported.count + 1, ids |-> ToSet(failed_blocks)]
    /\ phase' = "done"
    /\ UNCHANGED <<input, output, store, stack, req, failed_blocks, log, run, prev_clean, origin>>

RunWasClean == \A i \in DOMAIN log : log[i].outcome = "ok"

\* The tool is started again on the same page; a new process.
Rerun ==
    /\ phase = "done"
    /\ run < MaxRuns
    /\ run' = run + 1
    /\ prev_clean' = RunWasClean
    /\ phase' = "start"
    /\ failed_blocks' = <<>>
    /\ reported' = NoReport
    /\ log' = <<>>
    /\ origin' = store
    /\ UNCHANGED <<input, output, store, stack, req>>

(***************************************************************************)
(* get_all_child_blocks                                                    *)
(***************************************************************************)
ChildrenUrl(block_id) == [block |-> block_id, children |-> TRUE]

BlockUrl(block_id) == [block |-> block_id, children |-> FALSE]

GetChildren(block_id, start_cursor) ==
    Call("GET", ChildrenUrl(block_id),
         [params |-> [page_size |-> PAGE_SIZE, start_cursor |-> start_cursor]])

\* process_blocks_recursively returns: to main, or to the caller's loop,
\* which goes on with the block it recursed into.
Return ==
    IF Len(stack) = 1
    THEN stack' = <<>> /\ phase' = "finally"
    ELSE /\ stack' = [SubSeq(stack, 1, Len(stack) - 1) EXCEPT ![Len(stack) - 1].at = "rewrite"]
         /\ phase' = phase

GetChildrenFirst ==
    /\ phase = "traversing" /\ stack # <<>>
    /\ Top.at = "fetch"
    /\ Issue(GetChildren(Top.block_id, 0))
    /\ stack' = SetTop([Top EXCEPT !.at = "fetching"])
    /\ UNCHANGED <<input, output, store, phase, failed_blocks, reported, run, prev_clean, origin>>

GetChildrenMore ==
    /\ phase = "traversing" /\ stack # <<>>
    /\ Top.at = "fetching"
    /\ req.status = "returned"
    /\ req.response.has_more
    /\ Issue(GetChildren(Top.block_id, req.response.next_cursor))
    /\ stack' = SetTop([Top EXCEPT !.blocks = @ \o req.response.results,
                                   !.start_cursor = req.response.next_cursor])
    /\ UNCHANGED <<input, output, store, phase, failed_blocks, reported, run, prev_clean, origin>>

GetChildrenDone ==
    /\ phase = "traversing" /\ stack # <<>>
    /\ Top.at = "fetching"
    /\ req.status = "returned"
    /\ ~req.response.has_more
    /\ req' = Idle
    /\ stack' = SetTop([Top EXCEPT !.blocks = @ \o req.response.results,
                                   !.at = "loop", !.idx = 1])
    /\ UNCHANGED <<input, output, store, phase, failed_blocks, reported, log, run, prev_clean, origin>>

\* A fetch that hands back the pages it got before the failure.
GetChildrenFailed_partial ==
    /\ phase = "traversing" /\ stack # <<>>
    /\ Top.at = "fetching"
    /\ Failed(req)
    /\ req' = Idle
    /\ failed_blocks' = Append(failed_blocks, Top.block_id)
    /\ stack' = SetTop([Top EXCEPT !.at = "loop", !.idx = 1])
    /\ UNCHANGED <<input, output, store, phase, reported, log, run, prev_clean, origin>>

\* A failed fetch after which the caller goes on with the next block.
GetChildrenFailed_skip ==
    /\ phase = "traversing" /\ stack # <<>>
    /\ Top.at = "fetching"
    /\ Failed(req)
    /\ req' = Idle
    /\ failed_blocks' = Append(failed_blocks, Top.block_id)
    /\ IF Len(stack) = 1
       THEN stack' = <<>> /\ phase' = "finally"
       ELSE /\ stack' = [SubSeq(stack, 1, Len(stack) - 1)
                            EXCEPT ![Len(stack) - 1].at = "loop",
                                   ![Len(stack) - 1].idx = @ + 1]
            /\ phase' = phase
    /\ UNCHANGED <<input, output, store, reported, log, run, prev_clean, origin>>

\* A failed fetch that raises out of the traversal.
GetChildrenFailed_raise ==
    /\ phase = "traversing" /\ stack # <<>>
    /\ Top.at = "fetching"
    /\ Failed(req)
    /\ req' = Idle
    /\ failed_blocks' = Append(failed_blocks, Top.block_id)
    /\ phase' = "except"
    /\ stack' = <<>>
    /\ UNCHANGED <<input, output, store, reported, log, run, prev_clean, origin>>

\* except Exception: record block_id, return None; the caller returns.
GetChildrenFailed ==
    /\ phase = "traversing" /\ stack # <<>>
    /\ Top.at = "fetching"
    /\ Failed(req)
    /\ req' = Idle
    /\ failed_blocks' = Append(failed_blocks, Top.block_id)
    /\ Return
    /\ UNCHANGED <<input, output, store, reported, log, run, prev_clean, origin>>

(***************************************************************************)
(* process_blocks_recursively                                              *)
(***************************************************************************)
\* The block of the current loop iteration.
Cur == Top.blocks[Top.idx]

InLoop ==
    /\ phase = "traversing" /\ stack # <<>>
    /\ Top.at = "loop"
    /\ Top.idx <= Len(Top.blocks)

\* A loop body that may rewrite a block before recursing into it.
AtRewrite_early ==
    /\ phase = "traversing" /\ stack # <<>>
    /\ \/ Top.at = "rewrite"
       \/ InLoop /\ "type" \in DOMAIN Cur

\* The loop is past the recursion of this iteration.
AtRewrite ==
    /\ phase = "traversing" /\ stack # <<>>
    /\ \/ Top.at = "rewrite"
       \/ InLoop /\ "type" \in DOMAIN Cur /\ ~Cur.has_children

\* "".join([rt.get("plain_text", "") for rt in rich_text_list])
FullText(rich_text_list) ==
    Join([i \in DOMAIN rich_text_list |->
            IF "plain_text" \in DOMAIN rich_text_list[i]
            THEN rich_text_list[i].plain_text ELSE <<>>])

NoPlan == [kind |-> "none"]

\* A payload that carries the new rich text and nothing else of the block.
HolderPlan_bare(block) ==
    LET rich_text_list == IF "rich_text" \in DOMAIN block.content
                          THEN block.content.rich_text ELSE <<>>
        full_text == FullText(rich_text_list)
    IN  IF rich_text_list = <<>> THEN NoPlan
        ELSE IF block_match(full_text) # <<0, 0>>
        THEN IF Len(block_expression(full_text)) > NOTION_EXPRESSION_LIMIT
             THEN NoPlan
             ELSE [kind |-> "equation",
                   parent_id |-> block.parent[block.parent.type],
                   expression |-> block_expression(full_text)]
        ELSE LET parsed == parse_inline_equations(full_text)
             IN  IF parsed.is_changed
                 THEN [kind |-> "update",
                       payload |-> (block.type :> [rich_text |-> parsed.new_rich_text])]
                 ELSE NoPlan

\* A holder that is parsed for inline math first and promoted only when
\* the parser finds none.
HolderPlan_inlinefirst(block) ==
    LET rich_text_list == IF "rich_text" \in DOMAIN block.content
                          THEN block.content.rich_text ELSE <<>>
        full_text == FullText(rich_text_list)
        parsed == parse_inline_equations(full_text)
    IN  IF rich_text_list = <<>> THEN NoPlan
        ELSE IF parsed.is_changed
        THEN [kind |-> "update",
              payload |-> (block.type :>
                  [block.content EXCEPT !.rich_text = parsed.new_rich_text])]
        ELSE IF block_match(full_text) # <<0, 0>>
        THEN IF Len(block_expression(full_text)) > NOTION_EXPRESSION_LIMIT
             THEN NoPlan
             ELSE [kind |-> "equation",
                   parent_id |-> block.parent[block.parent.type],
                   expression |-> block_expression(full_text)]
        ELSE NoPlan

\* A holder whose block math is too long goes on to the inline parser.
HolderPlan_fallthrough(block) ==
    LET rich_text_list == IF "rich_text" \in DOMAIN block.content
                          THEN block.content.rich_text ELSE <<>>
        full_text == FullText(rich_text_list)
        parsed == parse_inline_equations(full_text)
    IN  IF rich_text_list = <<>> THEN NoPlan
        ELSE IF /\ block_match(full_text) # <<0, 0>>
                /\ Len(block_expression(full_text)) <= NOTION_EXPRESSION_LIMIT
        THEN [kind |-> "equation",
              parent_id |-> block.parent[block.parent.type],
              expression |-> block_expression(full_text)]
        ELSE IF parsed.is_changed
        THEN [kind |-> "update",
              payload |-> (block.type :>
                  [block.content EXCEPT !.rich_text = parsed.new_rich_text])]
        ELSE NoPlan

HolderPlan(block) ==
    LET rich_text_list == IF "rich_text" \in DOMAIN block.content
                          THEN block.content.rich_text ELSE <<>>
        full_text == FullText(rich_text_list)
    IN  IF rich_text_list = <<>> THEN NoPlan
        ELSE IF block_match(full_text) # <<0, 0>>
        THEN IF Len(block_expression(full_text)) > NOTION_EXPRESSION_LIMIT
             THEN NoPlan
             ELSE [kind |-> "equation",
                   parent_id |-> block.parent[block.parent.type],
                   expression |-> block_expression(full_text)]
        ELSE LET parsed == parse_inline_equations(full_text)
             IN  IF parsed.is_changed
                 THEN [kind |-> "update",
                       payload |-> (block.type :>
                           [block.content EXCEPT !.rich_text = parsed.new_rich_text])]
                 ELSE NoPlan

\* A row update that sends the parsed form of every cell.
RowPlan_reparsed(block) ==
    LET cells == IF "cells" \in DOMAIN block.content THEN block.content.cells ELSE <<>>
        parsed == [i \in DOMAIN cells |-> parse_inline_equations(FullText(cells[i]))]
        new_cells == [i \in DOMAIN cells |-> parsed[i].new_rich_text]
    IN  IF cells = <<>> THEN NoPlan
        ELSE IF \E i \in DOMAIN cells : parsed[i].is_changed
        THEN [kind |-> "update", payload |-> [table_row |-> [cells |-> new_cells]]]
        ELSE NoPlan

RowPlan(block) ==
    LET cells == IF "cells" \in DOMAIN block.content THEN block.content.cells ELSE <<>>
        parsed == [i \in DOMAIN cells |-> parse_inline_equations(FullText(cells[i]))]
        new_cells == [i \in DOMAIN cells |->
                        IF parsed[i].is_changed THEN parsed[i].new_rich_text ELSE cells[i]]
    IN  IF cells = <<>> THEN NoPlan
        ELSE IF \E i \in DOMAIN cells : parsed[i].is_changed
        THEN [kind |-> "update", payload |-> [table_row |-> [cells |-> new_cells]]]
        ELSE NoPlan

\* What the loop body does with a block once its children are done.
Plan(block) ==
    IF block.type \in RICH_TEXT_HOLDER_TYPES THEN HolderPlan(block)
    ELSE IF block.type = "table_row" THEN RowPlan(block)
    ELSE NoPlan

NextBlock == SetTop([Top EXCEPT !.at = "loop", !.idx = @ + 1])

\* The for loop is exhausted.
LoopEnd ==
    /\ phase = "traversing" /\ stack # <<>>
    /\ Top.at = "loop"
    /\ Top.idx > Len(Top.blocks)
    /\ Return
    /\ UNCHANGED <<input, output, store, req, failed_blocks, reported, log, run, prev_clean, origin>>

\* block["type"] raises KeyError, which nothing below main catches.
BlockKeyError ==
    /\ InLoop
    /\ "type" \notin DOMAIN Cur
    /\ phase' = "except"
    /\ stack' = <<>>
    /\ UNCHANGED <<input, output, store, req, failed_blocks, reported, log, run, prev_clean, origin>>

Recurse ==
    /\ InLoop
    /\ "type" \in DOMAIN Cur
    /\ Cur.has_children
    /\ stack' = Append(SetTop([Top EXCEPT !.at = "recursing"]), Frame(Cur.id))
    /\ UNCHANGED <<input, output, store, phase, req, failed_blocks, reported, log, run, prev_clean, origin>>

\* Every path of the loop body that ends the iteration without a request.
NoRewrite ==
    /\ AtRewrite
    /\ Plan(Cur).kind = "none"
    /\ stack' = NextBlock
    /\ UNCHANGED <<input, output, store, phase, req, failed_blocks, reported, log, run, prev_clean, origin>>

\* An insertion addressed to the page instead of the block's parent.
InsertEquation_page ==
    /\ AtRewrite
    /\ Plan(Cur).kind = "equation"
    /\ LET plan == Plan(Cur)
       IN  Issue(Call("PATCH", ChildrenUrl(PAGE_ID),
                      [json |-> [after |-> Cur.id,
                                 children |-> <<[type |-> "equation",
                                                 equation |-> [expression |-> plan.expression]]>>]]))
    /\ stack' = SetTop([Top EXCEPT !.at = "inserting"])
    /\ UNCHANGED <<input, output, store, phase, failed_blocks, reported, run, prev_clean, origin>>

\* insert_equation_block_after(parent_id, expression, block["id"])
InsertEquation ==
    /\ AtRewrite
    /\ Plan(Cur).kind = "equation"
    /\ LET plan == Plan(Cur)
       IN  Issue(Call("PATCH", ChildrenUrl(plan.parent_id),
                      [json |-> [after |-> Cur.id,
                                 children |-> <<[type |-> "equation",
                                                 equation |-> [expression |-> plan.expression]]>>]]))
    /\ stack' = SetTop([Top EXCEPT !.at = "inserting"])
    /\ UNCHANGED <<input, output, store, phase, failed_blocks, reported, run, prev_clean, origin>>

\* The insertion returned True: archive_block(block["id"]).
InsertReturned ==
    /\ phase = "traversing" /\ stack # <<>>
    /\ Top.at = "inserting"
    /\ req.status = "returned"
    /\ Issue(Call("PATCH", BlockUrl(Cur.id), [json |-> [archived |-> TRUE]]))
    /\ stack' = SetTop([Top EXCEPT !.at = "archiving"])
    /\ UNCHANGED <<input, output, store, phase, failed_blocks, reported, run, prev_clean, origin>>

\* A promotion that archives the block whatever the insertion returned.
InsertFailed_archive ==
    /\ phase = "traversing" /\ stack # <<>>
    /\ Top.at = "inserting"
    /\ Failed(req)
    /\ Issue(Call("PATCH", BlockUrl(Cur.id), [json |-> [archived |-> TRUE]]))
    /\ stack' = SetTop([Top EXCEPT !.at = "archiving"])
    /\ UNCHANGED <<input, output, store, phase, failed_blocks, reported, run, prev_clean, origin>>

\* The insertion returned False.
InsertFailed ==
    /\ phase = "traversing" /\ stack # <<>>
    /\ Top.at = "inserting"
    /\ Failed(req)
    /\ req' = Idle
    /\ stack' = NextBlock
    /\ UNCHANGED <<input, output, store, phase, failed_blocks, reported, log, run, prev_clean, origin>>

\* archive_block returns, whether the request succeeded or not.
ArchiveDone ==
    /\ phase = "traversing" /\ stack # <<>>
    /\ Top.at = "archiving"
    /\ req.status = "returned" \/ Failed(req)
    /\ req' = Idle
    /\ stack' = NextBlock
    /\ UNCHANGED <<input, output, store, phase, failed_blocks, reported, log, run, prev_clean, origin>>

\* update_block(block["id"], payload), for a rich-text holder or a table row.
UpdateBlock ==
    /\ AtRewrite
    /\ Plan(Cur).kind = "update"
    /\ Issue(Call("PATCH", BlockUrl(Cur.id), [json |-> Plan(Cur).payload]))
    /\ stack' = SetTop([Top EXCEPT !.at = "updating"])
    /\ UNCHANGED <<input, output, store, phase, failed_blocks, reported, run, prev_clean, origin>>

\* An update whose failure propagates out of the traversal.
UpdateDone_raise ==
    /\ phase = "traversing" /\ stack # <<>>
    /\ Top.at = "updating"
    /\ req.status = "returned" \/ Failed(req)
    /\ req' = Idle
    /\ IF Failed(req)
       THEN phase' = "except" /\ stack' = <<>>
       ELSE phase' = phase /\ stack' = NextBlock
    /\ UNCHANGED <<input, output, store, failed_blocks, reported, log, run, prev_clean, origin>>

\* update_block returns, whether the request succeeded or not.
UpdateDone ==
    /\ phase = "traversing" /\ stack # <<>>
    /\ Top.at = "updating"
    /\ req.status = "returned" \/ Failed(req)
    /\ req' = Idle
    /\ stack' = NextBlock
    /\ UNCHANGED <<input, output, store, phase, failed_blocks, reported, log, run, prev_clean, origin>>

Next ==
    \/ MainNotConfigured
    \/ MainPrompt
    \/ GetChildrenFirst
    \/ GetChildrenMore
    \/ GetChildrenDone
    \/ GetChildrenFailed
    \/ AttemptOk
    \/ AttemptThrottled
    \/ AttemptError
    \/ LoopEnd
    \/ BlockKeyError
    \/ Recurse
    \/ NoRewrite
    \/ InsertEquation
    \/ InsertReturned
    \/ InsertFailed
    \/ ArchiveDone
    \/ UpdateBlock
    \/ UpdateDone
    \/ MainExcept
    \/ MainFinally
    \/ Rerun

Spec == Init /\ [][Next]_vars

(***************************************************************************)
(* Progress.  The interpreter goes on to its next statement and the remote *)
(* answers every request, so no enabled step is postponed for ever.  The   *)
(* steps that leave the rewrite point of the loop body are named by where  *)
(* they take the loop, not by what the parser decides.                     *)
(***************************************************************************)
Steps ==
    \/ MainNotConfigured
    \/ MainPrompt
    \/ GetChildrenFirst
    \/ GetChildrenMore
    \/ GetChildrenDone
    \/ GetChildrenFailed
    \/ AttemptOk
    \/ AttemptThrottled
    \/ AttemptError
    \/ LoopEnd
    \/ BlockKeyError
    \/ Recurse
    \/ InsertReturned
    \/ InsertFailed
    \/ ArchiveDone
    \/ UpdateDone
    \/ MainExcept
    \/ MainFinally
    \/ Rerun

LeaveRewrite ==
    /\ AtRewrite
    /\ stack' \in {NextBlock,
                   SetTop([Top EXCEPT !.at = "inserting"]),
                   SetTop([Top EXCEPT !.at = "updating"])}

FairSpec == Spec /\ WF_vars(Steps) /\ WF_stack(LeaveRewrite)


(***************************************************************************)
(* parse_inline_equations called on its own, on every text over a small    *)
(* alphabet up to a length, on texts around the length limit, and on the   *)
(* text with an escaped dollar that the documentation gives as an example. *)
(***************************************************************************)
\* Longest text over the alphabet.
MaxLen == 4

Alphabet == {DOLLAR, BACKSLASH, "a", " ", NEWLINE}

ShortInputs == UNION {[1..k -> Alphabet] : k \in 0..MaxLen}

\* Inline math whose expression has 1001 characters between two texts, one
\* of 1000, one whose raw interior has 1002 characters and whose expression
\* has 1001, one whose raw interior has 1001 and whose expression has 1000.
LongInputs ==
    {<<"a", DOLLAR>> \o Letters(NOTION_EXPRESSION_LIMIT + 1) \o <<DOLLAR, "a">>,
     <<DOLLAR>> \o Letters(NOTION_EXPRESSION_LIMIT) \o <<DOLLAR>>,
     <<DOLLAR, BACKSLASH, BACKSLASH>> \o Letters(NOTION_EXPRESSION_LIMIT) \o <<DOLLAR>>,
     <<DOLLAR, BACKSLASH, BACKSLASH>> \o Letters(NOTION_EXPRESSION_LIMIT - 1) \o <<DOLLAR>>}

\* cost: \$5 and $x$
EscapedDollarText ==
    <<"c", "o", "s", "t", ":", " ", BACKSLASH, DOLLAR, "5", " ",
      "a", "n", "d", " ", DOLLAR, "x", DOLLAR>>

ParserInputs == ShortInputs \cup LongInputs \cup {EscapedDollarText}

\* match.span() of every match of re.finditer, as <<start, end>> with end
\* one past the match.
RECURSIVE Spans(_, _)
Spans(t, pos) ==
    LET m == NextMatch(t, pos)
    IN  IF m = <<0, 0>> THEN <<>> ELSE <<m>> \o Spans(t, m[2])

ParserInit ==
    /\ input \in ParserInputs
    /\ output = NotCalled
    /\ store = DocPromote
    /\ phase = "exit"
    /\ stack = <<>>
    /\ req = Idle
    /\ failed_blocks = <<>>
    /\ reported = NoReport
    /\ log = <<>>
    /\ run = 1
    /\ prev_clean = FALSE
    /\ origin = store

\* is_changed, new_rich_text = parse_inline_equations(input, block_id)
ParseText ==
    /\ output = NotCalled
    /\ output' = [called |-> TRUE, spans |-> Spans(input, 1)] @@ parse_inline_equations(input)
    /\ UNCHANGED <<input, store, phase, stack, req, failed_blocks, reported, log, run,
                   prev_clean, origin>>

ParserNext == ParseText

ParserSpec == ParserInit /\ [][ParserNext]_vars

(***************************************************************************)
(* Reading the request log                                                 *)
(***************************************************************************)
IsFetch(e) == e.method = "GET"

IsInsert(e) == e.method = "PATCH" /\ e.url.children

IsArchive(e) == e.method = "PATCH" /\ ~e.url.children /\ "archived" \in DOMAIN e.json

IsUpdate(e) == e.method = "PATCH" /\ ~e.url.children /\ "archived" \notin DOMAIN e.json

\* The block a request is about: the block a new sibling is placed after,
\* else the block named in the URL.
About(e) == IF IsInsert(e) THEN e.json.after ELSE e.url.block

RequestErrors == {"http_error", "no_response"}

(***************************************************************************)
(* C1: a call of make_request makes at most 5 attempts; every throttled    *)
(* attempt is followed by one sleep of the Retry-After value of that       *)
(* response (1 without the header); when all 5 attempts are throttled the  *)
(* call ends with the terminal failure, and before that it keeps going; a  *)
(* call returns a response exactly when its last attempt, the k-th, was    *)
(* answered successfully after k - 1 throttled ones.                       *)
(***************************************************************************)
C1_Wait(header) ==
    CASE header = NoHeader -> 1
      [] header = <<"2">> -> 2
      [] header = <<"1", "0">> -> 10

C1_Throttled == IF req.answer \in {"none", "throttled"} THEN req.attempt ELSE req.attempt - 1

C1_RetryCeiling ==
    req.status # "idle" =>
        /\ req.attempt <= 5
        /\ req.sleeps = C1_Throttled
        /\ req.answer = "throttled" => req.slept = C1_Wait(req.header)
        /\ (C1_Throttled = req.attempt /\ req.attempt < 5) => req.status = "calling"
        /\ (C1_Throttled = req.attempt /\ req.attempt = 5) => req.status = "exhausted"
        /\ req.status = "exhausted" => (req.attempt = 5 /\ req.sleeps = 5)
        /\ req.answer = "ok" <=> req.status = "returned"
        /\ req.status = "returned" => "response" \in DOMAIN req

C1_Witness ==
    /\ req.status = "exhausted"
    /\ req.sleeps = 5
    /\ req.header = <<"1", "0">>
    /\ req.slept = 10

(***************************************************************************)
(* C2: an attempt answered by a non-throttling error ends the call at once *)
(* with the error raised and without a sleep, whatever number of throttled *)
(* attempts came before; afterwards the call makes no further attempt, and *)
(* the client operation that made it takes its failure path, issuing no    *)
(* request of its own.                                                     *)
(***************************************************************************)
C2_NoRetryOnError ==
    [][ /\ ( /\ req.status # "idle" /\ req'.status # "idle"
             /\ req'.attempt = req.attempt + 1
             /\ req'.answer \in RequestErrors )
           => (req'.status = "raised" /\ req'.sleeps = req.sleeps)
        /\ ( req.status # "idle" /\ req.answer \in RequestErrors )
           => (req' = req \/ (req' = Idle /\ log' = log))
      ]_vars

C2_Witness ==
    /\ req.status = "raised"
    /\ req.answer = "no_response"
    /\ req.attempt = 3
    /\ req.sleeps = 2

(***************************************************************************)
(* C3: when the run has made its final report, the block of every request  *)
(* that failed terminally during the run is in the reported ledger.        *)
(***************************************************************************)
C3_FailureRecorded ==
    phase = "done" =>
        \A i \in DOMAIN log : log[i].outcome = "failed" => About(log[i]) \in reported.ids

(***************************************************************************)
(* The document as the run found it                                        *)
(***************************************************************************)
\* The blocks below b that the API lists.
RECURSIVE Under(_, _)
Under(st, b) ==
    LET kids == ToSet(LiveChildren(st, b))
    IN  kids \cup UNION {Under(st, k) : k \in kids}

OriginTree == Under(origin, PAGE_ID)

\* The run ended, no fetch failed and no block raised: the traversal had
\* every block of the page before it.
WalkedAll ==
    /\ phase \in {"finally", "done"}
    /\ \A i \in DOMAIN log : IsFetch(log[i]) => log[i].outcome = "ok"
    /\ \A n \in OriginTree : origin[n].type # NoType

OriginText(n) == FullText(origin[n].content.rich_text)

IsBlockMath(n) ==
    /\ origin[n].type \in RICH_TEXT_HOLDER_TYPES
    /\ origin[n].content.rich_text # <<>>
    /\ block_match(OriginText(n)) # <<0, 0>>

IsInlineCandidate(n) ==
    /\ origin[n].type \in RICH_TEXT_HOLDER_TYPES
    /\ origin[n].content.rich_text # <<>>
    /\ block_match(OriginText(n)) = <<0, 0>>

(***************************************************************************)
(* C4: get_all_child_blocks(N) is all-or-nothing.  When it hands a list to *)
(* the loop, the list is the complete ordered list of N's children; when   *)
(* the request for any page fails, the step that handles the failure       *)
(* appends N to failed_blocks and returns without a list to a caller that  *)
(* carries on (no exception), and N stays in the ledger.                   *)
(***************************************************************************)
C4_Complete ==
    (phase = "traversing" /\ stack # <<>> /\ Top.at = "loop" /\ Top.idx = 1) =>
        LET live == LiveChildren(store, Top.block_id)
        IN  Top.blocks = [i \in 1..Len(live) |-> APIBlock(store, live[i])]

C4_Recorded ==
    \A i \in DOMAIN log :
        (IsFetch(log[i]) /\ log[i].outcome = "failed" /\ (i < Len(log) \/ req = Idle)) =>
            /\ \E k \in DOMAIN failed_blocks : failed_blocks[k] = log[i].url.block
            /\ \A k \in DOMAIN stack : stack[k].block_id # log[i].url.block

C4_FetchAllOrNothing ==
    /\ [](C4_Complete /\ C4_Recorded)
    /\ [][ ( /\ phase = "traversing" /\ stack # <<>> /\ Top.at = "fetching"
             /\ req.status \in {"raised", "exhausted"} /\ req' = Idle )
           => /\ failed_blocks' = Append(failed_blocks, Top.block_id)
              /\ Len(stack') = Len(stack) - 1
              /\ phase' \in {"traversing", "finally"}
              /\ log' = log
       ]_vars

C4_Witness ==
    /\ Len(log) = 2
    /\ IsFetch(log[1]) /\ log[1].outcome = "ok"
    /\ IsFetch(log[2]) /\ log[2].outcome = "failed"
    /\ log[2].url.block = log[1].url.block
    /\ req = Idle
    /\ failed_blocks = <<PAGE_ID>>
    /\ stack = <<>>

(***************************************************************************)
(* C5: a terminal failure of an insert, archive or update does not halt    *)
(* the traversal.  In a run that ended without a failed fetch, every block *)
(* of the page with children was fetched, and every block that calls for a *)
(* rewrite had its request issued, whichever mutations failed before it.   *)
(***************************************************************************)
C5_MutationFailureDoesNotHalt ==
    WalkedAll =>
        /\ \A n \in OriginTree \cup {PAGE_ID} :
              LiveChildren(origin, n) # <<>> =>
                  \E i \in DOMAIN log : IsFetch(log[i]) /\ About(log[i]) = n
        /\ \A n \in OriginTree :
              Plan(APIBlock(origin, n)).kind = "equation" =>
                  \E i \in DOMAIN log : IsInsert(log[i]) /\ About(log[i]) = n
        /\ \A n \in OriginTree :
              Plan(APIBlock(origin, n)).kind = "update" =>
                  \E i \in DOMAIN log : IsUpdate(log[i]) /\ About(log[i]) = n

C5_Witness ==
    /\ WalkedAll
    /\ phase = "done"
    /\ \E i, j \in DOMAIN log :
          /\ i < j
          /\ IsUpdate(log[i]) /\ log[i].outcome = "failed"
          /\ log[j].method = "PATCH" /\ log[j].outcome = "ok"

(***************************************************************************)
(* C6: once the traversal has started, the run reaches its end, whether    *)
(* the traversal returns or an exception escapes it; at the end the report *)
(* step has run exactly once and has listed the distinct IDs of            *)
(* failed_blocks; it never runs twice and never before the traversal is    *)
(* over.                                                                   *)
(***************************************************************************)
C6_ReportOnce ==
    /\ [](phase = "done" =>
            /\ reported.count = 1
            /\ reported.ids = {failed_blocks[k] : k \in DOMAIN failed_blocks})
    /\ [](phase \in {"start", "traversing", "except", "finally"} => reported.count = 0)
    /\ (phase = "traversing") ~> (phase = "done")
    /\ (phase = "except") ~> (phase = "done")

C6_Witness ==
    /\ phase = "done"
    /\ \E n \in DOMAIN store : store[n].type = NoType
    /\ \A i \in DOMAIN log : IsFetch(log[i]) /\ log[i].url.block = PAGE_ID => log[i].outcome = "ok"
    /\ reported = [count |-> 1, ids |-> {1}]

(***************************************************************************)
(* C7: after a run in which every request succeeded, a second run over the *)
(* resulting document issues no insert, no archive and no update.          *)
(***************************************************************************)
C7_SecondRunSilent ==
    (run > 1 /\ prev_clean) => \A i \in DOMAIN log : IsFetch(log[i])

(***************************************************************************)
(* C8 as claimed: in a finished run every insert is followed at once by    *)
(* the archive of the block it was made for.                               *)
(***************************************************************************)
C8_InsertThenArchive ==
    phase = "done" =>
        \A i \in DOMAIN log :
            IsInsert(log[i]) =>
                /\ i < Len(log)
                /\ IsArchive(log[i + 1])
                /\ About(log[i + 1]) = About(log[i])

(***************************************************************************)
(* C8, amended: an insert is issued only for a rich-text holder B whose    *)
(* whole text is block math of at most 1000 characters, once per run; it   *)
(* carries exactly one equation block with that expression, is addressed   *)
(* to B's parent with after = B, and no update is issued for B.  The       *)
(* archive of B is the next request after the insert when the insert       *)
(* succeeded and is never issued when it failed; no archive is issued      *)
(* otherwise.  Every such B the traversal comes to gets its insert.        *)
(***************************************************************************)
C8_InsertShape(i) ==
    LET B == log[i].json.after
    IN  /\ IsBlockMath(B)
        /\ Len(block_expression(OriginText(B))) <= 1000
        /\ log[i].json.children =
             <<[type |-> "equation",
                equation |-> [expression |-> block_expression(OriginText(B))]]>>
        /\ log[i].url.block = origin[B].parent
        /\ \A j \in DOMAIN log : (IsInsert(log[j]) /\ About(log[j]) = B) => j = i
        /\ \A j \in DOMAIN log : ~(IsUpdate(log[j]) /\ About(log[j]) = B)
        /\ (log[i].outcome = "ok" /\ i < Len(log)) =>
              (IsArchive(log[i + 1]) /\ About(log[i + 1]) = B)
        /\ (log[i].outcome = "ok" /\ phase \in {"finally", "done"}) => i < Len(log)
        /\ log[i].outcome = "failed" =>
              \A j \in DOMAIN log : ~(IsArchive(log[j]) /\ About(log[j]) = B)

C8_Promotion ==
    /\ \A i \in DOMAIN log : IsInsert(log[i]) => C8_InsertShape(i)
    /\ \A j \in DOMAIN log :
          IsArchive(log[j]) =>
              /\ j > 1
              /\ IsInsert(log[j - 1])
              /\ About(log[j - 1]) = About(log[j])
              /\ log[j - 1].outcome = "ok"
              /\ log[j].json = [archived |-> TRUE]
    /\ WalkedAll =>
          \A n \in OriginTree :
              (IsBlockMath(n) /\ Len(block_expression(OriginText(n))) <= 1000) =>
                  \E i \in DOMAIN log : IsInsert(log[i]) /\ About(log[i]) = n

C8_Witness ==
    /\ phase = "done"
    /\ \E i \in DOMAIN log :
          /\ IsInsert(log[i]) /\ log[i].outcome = "ok"
          /\ log[i].url.block # PAGE_ID
          /\ i < Len(log) /\ IsArchive(log[i + 1]) /\ log[i + 1].outcome = "ok"
    /\ \E n \in DOMAIN store : store[n].type = "equation"

(***************************************************************************)
(* C9: an update of a rich-text holder is issued only when inline parsing  *)
(* of its text (which is not block math) yields a math segment, once per   *)
(* run; its payload is the block's type-specific content as fetched with   *)
(* only rich_text replaced by the parsed segments.  Every holder whose     *)
(* parse yields a math segment gets the update when the traversal comes to *)
(* it.                                                                     *)
(***************************************************************************)
C9_UpdateShape(i) ==
    LET B == log[i].url.block
        type == origin[B].type
        parsed == parse_inline_equations(OriginText(B))
    IN  /\ IsInlineCandidate(B)
        /\ DOMAIN log[i].json = {type}
        /\ parsed.is_changed
        /\ \E k \in DOMAIN parsed.new_rich_text : parsed.new_rich_text[k].type = "equation"
        /\ DOMAIN log[i].json[type] = DOMAIN origin[B].content
        /\ log[i].json[type].rich_text = parsed.new_rich_text
        /\ \A f \in DOMAIN origin[B].content \ {"rich_text"} :
              log[i].json[type][f] = origin[B].content[f]
        /\ \A j \in DOMAIN log : (IsUpdate(log[j]) /\ About(log[j]) = B) => j = i

C9_InlineFrame ==
    /\ \A i \in DOMAIN log :
          (IsUpdate(log[i]) /\ origin[About(log[i])].type # "table_row") => C9_UpdateShape(i)
    /\ WalkedAll =>
          \A n \in OriginTree :
              (IsInlineCandidate(n) /\ parse_inline_equations(OriginText(n)).is_changed) =>
                  \E i \in DOMAIN log : IsUpdate(log[i]) /\ About(log[i]) = n

C9_Witness ==
    \E i \in DOMAIN log :
        /\ IsUpdate(log[i]) /\ log[i].outcome = "ok"
        /\ origin[About(log[i])].type = "to_do"
        /\ log[i].json.to_do.checked = TRUE
        /\ store[About(log[i])].content.checked = TRUE
        /\ store[About(log[i])].content.rich_text # origin[About(log[i])].content.rich_text

(***************************************************************************)
(* C10: an update of a table row is issued only when inline parsing of at  *)
(* least one of its cells yields a math segment, once per run; it carries  *)
(* all cells in their order, a changed cell as its parsed segments and an  *)
(* unchanged cell exactly as fetched.  No insert is ever made for a table  *)
(* row.  Every row with a changed cell gets the update when the traversal  *)
(* comes to it.                                                            *)
(***************************************************************************)
C10_Cell(cell) ==
    LET parsed == parse_inline_equations(FullText(cell))
    IN  IF parsed.is_changed THEN parsed.new_rich_text ELSE cell

C10_RowChanged(n) ==
    /\ origin[n].type = "table_row"
    /\ \E k \in DOMAIN origin[n].content.cells :
          parse_inline_equations(FullText(origin[n].content.cells[k])).is_changed

C10_UpdateShape(i) ==
    LET B == log[i].url.block
        cells == origin[B].content.cells
    IN  /\ C10_RowChanged(B)
        /\ DOMAIN log[i].json = {"table_row"}
        /\ DOMAIN log[i].json.table_row = {"cells"}
        /\ Len(log[i].json.table_row.cells) = Len(cells)
        /\ \A k \in DOMAIN cells : log[i].json.table_row.cells[k] = C10_Cell(cells[k])
        /\ \A j \in DOMAIN log : (IsUpdate(log[j]) /\ About(log[j]) = B) => j = i

C10_RowRewrite ==
    /\ \A i \in DOMAIN log :
          (IsUpdate(log[i]) /\ origin[About(log[i])].type = "table_row") => C10_UpdateShape(i)
    /\ \A i \in DOMAIN log :
          (IsInsert(log[i]) \/ IsArchive(log[i])) => origin[About(log[i])].type # "table_row"
    /\ WalkedAll =>
          \A n \in OriginTree :
              C10_RowChanged(n) => \E i \in DOMAIN log : IsUpdate(log[i]) /\ About(log[i]) = n

C10_Witness ==
    \E i \in DOMAIN log :
        /\ IsUpdate(log[i]) /\ log[i].outcome = "ok"
        /\ origin[About(log[i])].type = "table_row"
        /\ log[i].json.table_row.cells[1] = <<EquationItem(<<"a">>)>>
        /\ log[i].json.table_row.cells[2] = origin[About(log[i])].content.cells[2]
        /\ store[About(log[i])].content.cells[2] = origin[About(log[i])].content.cells[2]

(***************************************************************************)
(* C11: the segments parse_inline_equations returns rebuild its input.     *)
(* Read from left to right, a text segment is the next characters of the   *)
(* input and a math segment stands for a next piece $ + raw + $ whose raw  *)
(* interior unescapes to the segment's expression; the pieces use up the   *)
(* input exactly.  No text segment is empty, and a non-empty input gives   *)
(* at least one segment.                                                   *)
(***************************************************************************)
RECURSIVE C11_Rebuilds(_, _, _)
C11_Rebuilds(t, p, items) ==
    IF items = <<>> THEN p = Len(t) + 1
    ELSE LET h == Head(items)
         IN  IF h.type = "text"
             THEN /\ h.content # <<>>
                  /\ p + Len(h.content) - 1 <= Len(t)
                  /\ Slice(t, p, p + Len(h.content) - 1) = h.content
                  /\ C11_Rebuilds(t, p + Len(h.content), Tail(items))
             ELSE /\ p <= Len(t)
                  /\ t[p] = "$"
                  /\ \E e \in (p + 2)..Len(t) :
                        /\ t[e] = "$"
                        /\ Unescape(Slice(t, p + 1, e - 1)) = h.expression
                        /\ C11_Rebuilds(t, e + 1, Tail(items))

C11_Reconstruction ==
    output.called =>
        /\ C11_Rebuilds(input, 1, output.new_rich_text)
        /\ \A k \in DOMAIN output.new_rich_text :
              output.new_rich_text[k].type = "text" => output.new_rich_text[k].content # <<>>
        /\ input # <<>> => output.new_rich_text # <<>>

C11_Witness ==
    /\ output.called
    /\ input = <<"$", "\\", "$", "$">>
    /\ output.new_rich_text = <<EquationItem(<<"$">>)>>

(***************************************************************************)
(* C12: a dollar sign right after an unescaped backslash opens no inline   *)
(* match: no span of a match starts at a $ preceded by an odd number of    *)
(* backslashes; and the text  cost: \$5 and $x$  parses, with the changed  *)
(* flag set, to segments among which are a text that holds a $ and the     *)
(* math segment x.                                                         *)
(***************************************************************************)
\* The number of backslashes that end right before position p.
C12_BackslashesBefore(t, p) ==
    LET Others == {q \in 1..(p - 1) : t[q] # "\\"}
        last == IF Others = {} THEN 0 ELSE CHOOSE q \in Others : \A r \in Others : r <= q
    IN  p - 1 - last

C12_EscapedDollarNotDelimiter ==
    output.called =>
        /\ \A k \in DOMAIN output.spans :
              C12_BackslashesBefore(input, output.spans[k][1]) % 2 = 0
        /\ input = EscapedDollarText =>
              /\ output.is_changed
              /\ \E k \in DOMAIN output.new_rich_text :
                    /\ output.new_rich_text[k].type = "text"
                    /\ InSeq("$", output.new_rich_text[k].content)
              /\ \E k \in DOMAIN output.new_rich_text :
                    output.new_rich_text[k] = EquationItem(<<"x">>)

(***************************************************************************)
(* Runs in which some fetch failed                                         *)
(***************************************************************************)
\* The blocks whose children could not be fetched in this run.
FailedFetches == {log[i].url.block : i \in {k \in DOMAIN log : IsFetch(log[k]) /\ log[k].outcome = "failed"}}

\* The blocks below a block whose children could not be fetched.
CutOff == UNION {Under(origin, f) : f \in FailedFetches}

\* The run ended and no block raised.
Finished ==
    /\ phase \in {"finally", "done"}
    /\ \A n \in OriginTree : origin[n].type # NoType

(***************************************************************************)
(* C13: when the fetch of N's children fails, the activation for N returns *)
(* to its caller without an exception and without touching the document;   *)
(* no request is ever issued for a block below N; and when the run has     *)
(* ended, every block that is not below a block with a failed fetch had    *)
(* its children fetched and its rewrite issued as its content calls for.   *)
(***************************************************************************)
C13_RestUnaffected ==
    Finished =>
        \A n \in OriginTree \ CutOff :
            /\ LiveChildren(origin, n) # <<>> =>
                  \E i \in DOMAIN log : IsFetch(log[i]) /\ About(log[i]) = n
            /\ Plan(APIBlock(origin, n)).kind = "equation" =>
                  \E i \in DOMAIN log : IsInsert(log[i]) /\ About(log[i]) = n
            /\ Plan(APIBlock(origin, n)).kind = "update" =>
                  \E i \in DOMAIN log : IsUpdate(log[i]) /\ About(log[i]) = n

C13_FailedFetchStopsSubtree ==
    /\ [](\A i \in DOMAIN log : About(log[i]) \notin CutOff)
    /\ [](C13_RestUnaffected)
    /\ [][ ( /\ phase = "traversing" /\ stack # <<>> /\ Top.at = "fetching"
             /\ req.status \in {"raised", "exhausted"} /\ req' = Idle )
           => /\ phase' # "except"
              /\ stack' # <<>> => phase' = "traversing"
              /\ stack' = <<>> => (phase' = "finally" /\ Len(stack) = 1)
              /\ store' = store
              /\ log' = log
       ]_vars

C13_Witness ==
    /\ phase = "done"
    /\ FailedFetches = {1}
    /\ \E n \in Under(origin, 1) : Plan(APIBlock(origin, n)).kind = "equation"
    /\ \E i, j \in DOMAIN log :
          /\ i < j
          /\ IsFetch(log[i]) /\ log[i].outcome = "failed"
          /\ IsUpdate(log[j]) /\ log[j].outcome = "ok" /\ origin[About(log[j])].type = "table_row"

(***************************************************************************)
(* C14: children before self, siblings in fetch order.  A mutation of a    *)
(* block C that has children comes after the fetch of C's children, which  *)
(* was issued, and after every request for a block below C; and every      *)
(* request for C or a block below C comes before every request for a       *)
(* later sibling of C or a block below that sibling.                       *)
(***************************************************************************)
\* The requests for the subtree of n: for n itself or a block below it.
C14_ForSubtree(i, n) == About(log[i]) \in {n} \cup Under(origin, n)

C14_ChildrenBeforeSelf ==
    /\ \A j \in DOMAIN log :
          (log[j].method = "PATCH" /\ LiveChildren(origin, About(log[j])) # <<>>) =>
              /\ \E i \in 1..(j - 1) : IsFetch(log[i]) /\ About(log[i]) = About(log[j])
              /\ \A i \in DOMAIN log :
                    ( \/ IsFetch(log[i]) /\ About(log[i]) = About(log[j])
                      \/ About(log[i]) \in Under(origin, About(log[j])) ) => i < j
    /\ \A P \in OriginTree \cup {PAGE_ID} :
          LET kids == LiveChildren(origin, P)
          IN  \A a, b \in DOMAIN kids :
                  a < b => \A i, j \in DOMAIN log :
                               (C14_ForSubtree(i, kids[a]) /\ C14_ForSubtree(j, kids[b])) => i < j

C14_Witness ==
    /\ phase = "done"
    /\ \E i, j, k, l \in DOMAIN log :
          /\ i < j /\ j < k /\ k < l
          /\ IsFetch(log[i]) /\ About(log[i]) = 1
          /\ IsInsert(log[j]) /\ About(log[j]) \in Under(origin, 1) /\ log[j].outcome = "ok"
          /\ IsUpdate(log[k]) /\ About(log[k]) = 1
          /\ IsUpdate(log[l]) /\ About(log[l]) \in Under(origin, 3)

(***************************************************************************)
(* C15: a rich-text holder whose whole text is block math with an          *)
(* expression of more than 1000 characters gets no insert, no archive and  *)
(* no update, also when its text holds inline math; it is in failed_blocks *)
(* only if the fetch of its own children failed; the step that deals with  *)
(* it moves the loop to the next sibling and changes nothing else; and in  *)
(* a run that came to all blocks the siblings after it are rewritten.      *)
(***************************************************************************)
C15_TooLong(n) ==
    /\ n \in DOMAIN origin
    /\ IsBlockMath(n)
    /\ Len(block_expression(OriginText(n))) > 1000

C15_Untouched ==
    \A n \in DOMAIN origin :
        C15_TooLong(n) =>
            /\ \A i \in DOMAIN log : log[i].method = "PATCH" => About(log[i]) # n
            /\ InSeq(n, failed_blocks) => n \in FailedFetches
            /\ store[n] = origin[n]
            /\ WalkedAll =>
                  \A m \in OriginTree :
                      ( /\ origin[m].parent = origin[n].parent
                        /\ Plan(APIBlock(origin, m)).kind = "equation" ) =>
                          \E i \in DOMAIN log : IsInsert(log[i]) /\ About(log[i]) = m

C15_TooLongSkipped ==
    /\ [](C15_Untouched)
    /\ [][ (AtRewrite /\ C15_TooLong(Cur.id)) =>
              /\ log' = log
              /\ failed_blocks' = failed_blocks
              /\ store' = store
              /\ stack' = stack \/ stack' = NextBlock
       ]_vars

C15_Witness ==
    /\ phase = "done"
    /\ C15_TooLong(1) /\ ~C15_TooLong(2)
    /\ origin[1].parent = origin[2].parent
    /\ \E i \in DOMAIN log : IsInsert(log[i]) /\ About(log[i]) = 2 /\ log[i].outcome = "ok"
    /\ \A i \in DOMAIN log : About(log[i]) # 1

(***************************************************************************)
(* C16: promotion and inline rewriting exclude each other within a run.    *)
(* No update is issued for a rich-text holder whose whole text is block    *)
(* math, whether its insert succeeded, failed or was skipped for length;   *)
(* and a block for which an update was issued has no insert and no archive *)
(* issued for it.                                                          *)
(***************************************************************************)
C16_MutuallyExclusive ==
    /\ \A i \in DOMAIN log : IsUpdate(log[i]) => ~IsBlockMath(About(log[i]))
    /\ \A i, j \in DOMAIN log :
          (IsUpdate(log[i]) /\ (IsInsert(log[j]) \/ IsArchive(log[j]))) =>
              About(log[i]) # About(log[j])

C16_Witness ==
    /\ phase = "done"
    /\ C15_TooLong(1)
    /\ \E j \in DOMAIN log :
          IsInsert(log[j]) /\ About(log[j]) = 2 /\ log[j].outcome = "failed"
    /\ \E i \in DOMAIN log :
          IsUpdate(log[i]) /\ About(log[i]) = 3 /\ log[i].outcome = "ok"

(***************************************************************************)
(* C17: when the run has ended, every rich-text holder the traversal came  *)
(* to is in one of the terminal states: promoted (archived, and a new      *)
(* equation block right after it), rewritten (an update was issued and     *)
(* nothing else happened to it) or left alone (not archived, no equation   *)
(* block after it, no update).  In particular a new equation block follows *)
(* a block exactly when that block was archived.                           *)
(***************************************************************************)
\* A block created in this run is an equation block right after n.
C17_EquationAfter(n) ==
    LET sibs == store[origin[n].parent].children
    IN  \E k \in 1..(Len(sibs) - 1) :
            /\ sibs[k] = n
            /\ sibs[k + 1] \notin DOMAIN origin
            /\ store[sibs[k + 1]].type = "equation"

C17_Archived(n) == store[n].archived /\ ~origin[n].archived

C17_Updated(n) == \E i \in DOMAIN log : IsUpdate(log[i]) /\ About(log[i]) = n

C17_Promoted(n) == C17_EquationAfter(n) /\ C17_Archived(n) /\ ~C17_Updated(n)

C17_Rewritten(n) == C17_Updated(n) /\ ~C17_EquationAfter(n) /\ ~C17_Archived(n)

C17_LeftAlone(n) == ~C17_Updated(n) /\ ~C17_EquationAfter(n) /\ ~C17_Archived(n)

C17_TerminalStates ==
    (phase = "done" /\ Finished) =>
        \A n \in OriginTree \ CutOff :
            (origin[n].type \in RICH_TEXT_HOLDER_TYPES /\ origin[n].content.rich_text # <<>>) =>
                /\ C17_Promoted(n) \/ C17_Rewritten(n) \/ C17_LeftAlone(n)
                /\ C17_EquationAfter(n) <=> C17_Archived(n)

(***************************************************************************)
(* C18: an archive is requested only as the request right after the        *)
(* successful insert for the same block; a block whose insert failed has   *)
(* no archive requested in the run, and the step after the failure issues  *)
(* no request; and in every state an archived block is followed in its     *)
(* parent by an equation block that carries its expression.                *)
(***************************************************************************)
C18_ReplacedBy(n) ==
    LET sibs == store[store[n].parent].children
    IN  \E k \in 1..(Len(sibs) - 1) :
            /\ sibs[k] = n
            /\ store[sibs[k + 1]].type = "equation"
            /\ store[sibs[k + 1]].content.expression =
                 block_expression(FullText(store[n].content.rich_text))

C18_Safe ==
    /\ \A j \in DOMAIN log :
          IsArchive(log[j]) =>
              /\ j > 1
              /\ IsInsert(log[j - 1]) /\ log[j - 1].outcome = "ok"
              /\ log[j - 1].json.after = log[j].url.block
    /\ \A i, j \in DOMAIN log :
          (IsInsert(log[i]) /\ log[i].outcome = "failed" /\ IsArchive(log[j])) =>
              log[j].url.block # log[i].json.after
    /\ \A n \in DOMAIN store : store[n].archived => C18_ReplacedBy(n)

C18_ArchiveOnlyAfterInsert ==
    /\ [](C18_Safe)
    /\ [][ ( /\ phase = "traversing" /\ stack # <<>> /\ Top.at = "inserting"
             /\ req.status \in {"raised", "exhausted"} /\ req' # req )
           => (log' = log /\ req' = Idle /\ store' = store)
       ]_vars

C18_Witness ==
    /\ phase = "done"
    /\ \E i \in DOMAIN log :
          /\ IsInsert(log[i]) /\ log[i].outcome = "failed"
          /\ ~store[log[i].json.after].archived
          /\ i < Len(log) /\ IsUpdate(log[i + 1])
    /\ \A j \in DOMAIN log : ~IsArchive(log[j])

(***************************************************************************)
(* C19: the run terminates.  Every call makes at most 5 attempts; the      *)
(* children of a block are fetched by one uninterrupted sequence of page   *)
(* requests, no more than its children need; a block gets at most one      *)
(* update, or one insert and then at most one archive; no request is about *)
(* a block created in this run; so the requests of a run are at most four  *)
(* per block of the document.  With the remote answering every request, a  *)
(* traversal that has started reaches the final report.                    *)
(***************************************************************************)
C19_Count(P(_)) == Cardinality({i \in DOMAIN log : P(i)})

C19_Pages(n) ==
    LET c == Len(LiveChildren(origin, n))
        size == Min(PAGE_SIZE, MaxPage)
    IN  IF c = 0 THEN 1 ELSE (c + size - 1) \div size

C19_Bounded ==
    /\ req.status # "idle" => req.attempt <= 5
    /\ \A i \in DOMAIN log : About(log[i]) \in DOMAIN origin
    /\ \A n \in DOMAIN origin :
          LET FetchN(i) == IsFetch(log[i]) /\ About(log[i]) = n
              InsertN(i) == IsInsert(log[i]) /\ About(log[i]) = n
              ArchiveN(i) == IsArchive(log[i]) /\ About(log[i]) = n
              UpdateN(i) == IsUpdate(log[i]) /\ About(log[i]) = n
          IN  /\ C19_Count(FetchN) <= C19_Pages(n)
              /\ \A i, j \in DOMAIN log :
                    (i < j /\ FetchN(i) /\ FetchN(j)) => \A k \in i..j : FetchN(k)
              /\ C19_Count(InsertN) <= 1
              /\ C19_Count(ArchiveN) <= C19_Count(InsertN)
              /\ C19_Count(UpdateN) <= 1
              /\ C19_Count(UpdateN) + C19_Count(InsertN) <= 1
    /\ Len(log) <= 4 * Cardinality(DOMAIN origin)

C19_Terminates ==
    /\ [](C19_Bounded)
    /\ (phase = "traversing") ~> (phase = "done" /\ reported.count = 1 /\ req = Idle)

C19_Witness ==
    /\ phase = "done"
    /\ reported.count = 1
    /\ Len(log) = 7
    /\ \E i \in DOMAIN log : log[i].outcome = "failed"
    /\ \E n \in DOMAIN store : n \notin DOMAIN origin /\ store[n].type = "equation"

(***************************************************************************)
(* C20: a failed fetch of the children of a child C costs only C's         *)
(* descendants.  The request that follows the failed fetch is the rewrite  *)
(* that C's own content calls for, exactly as after a successful           *)
(* recursion: the insert of its equation block after C in C's parent, or   *)
(* its update; when C calls for none, no request is about C.  A run does   *)
(* not end between the failed fetch and that rewrite.                      *)
(***************************************************************************)
C20_RewriteOf(e, C) ==
    LET plan == Plan(APIBlock(origin, C))
    IN  CASE plan.kind = "equation" ->
               /\ IsInsert(e)
               /\ e.url.block = origin[C].parent
               /\ e.json = [after |-> C,
                            children |-> <<[type |-> "equation",
                                            equation |-> [expression |-> plan.expression]]>>]
          [] plan.kind = "update" ->
               /\ IsUpdate(e)
               /\ e.url.block = C
               /\ e.json = plan.payload
          [] OTHER -> About(e) # C

C20_SelfStillRewritten ==
    \A i \in DOMAIN log :
        (IsFetch(log[i]) /\ log[i].outcome = "failed" /\ About(log[i]) # PAGE_ID) =>
            /\ i < Len(log) => C20_RewriteOf(log[i + 1], About(log[i]))
            /\ (i = Len(log) /\ phase \in {"finally", "done"}) =>
                  Plan(APIBlock(origin, About(log[i]))).kind = "none"

C20_Witness ==
    /\ phase = "done"
    /\ FailedFetches = {1}
    /\ IsBlockMath(1)
    /\ store[1].archived
    /\ \E n \in DOMAIN store :
          n \notin DOMAIN origin /\ store[n].type = "equation" /\ store[n].parent = origin[1].parent
    /\ \A i \in DOMAIN log : About(log[i]) \notin Under(origin, 1)

====
